---- MODULE Spec2Model ----
(***************************************************************************)
(* Model of the hand region-of-interest tracker, HandPipeline, of          *)
(* src/src/handpose/handpipeline.js.                                        *)
(*                                                                         *)
(* Coordinates are integers on a grid.  Confidences are integers (a scaled *)
(* score).  A Box is a record with startPoint and endPoint; the detector   *)
(* (boundingBoxDetector.estimateHandBounds) and the mesh predictor         *)
(* (meshDetector.predict, followed by transformRawCoords and               *)
(* getBoxForHandLandmarks) are collaborators whose outputs are inputs of   *)
(* the model, drawn from small sets.                                        *)
(*                                                                         *)
(* Further specifications cover the pure functions of HandPipeline         *)
(* (SpecROI, SpecLandmarks, SpecTransform), calls whose collaborators fail *)
(* (SpecCollab), calls that overlap at the await (SpecOverlap), the pose   *)
(* module's predict (SpecPose) and getCanvasContext of                     *)
(* src/src/draw/primitives.ts (SpecCanvas).                                *)
(***************************************************************************)
EXTENDS Integers, Sequences, FiniteSets, TLC

\* ---------------------------------------------------------------- bounds
MaxSkip == 1        \* config.skipFrames ranges over 0..MaxSkip
MaxHands == 2       \* config.maxHands ranges over 1..MaxHands
MaxConf == 2        \* confidences range over 1..MaxConf, minConfidence over 2..MaxConf
MaxDet == 2         \* the detector returns at most MaxDet boxes
MaxRuns == 4        \* cap on runsWithoutHandDetector
MaxCoord == 6       \* grid 0..MaxCoord of the box coordinates (SpecROI)
MaxLandmarks == 3   \* a landmark list has 1..MaxLandmarks points (SpecLandmarks)
MaxLm == 1          \* landmark coordinates range over 0..MaxLm (SpecLandmarks)
InputSize == 2      \* the constructor's inputSize (SpecTransform)
MaxRawLen == 2      \* rawCoords has 0..MaxRawLen coordinates (SpecTransform)
MaxDepth == 1       \* the depth of a raw coordinate ranges over 0..MaxDepth
MaxPoseSkip == 2    \* config.body.skipFrames ranges over 0..MaxPoseSkip (SpecPose)
MaxKeypoints == 1   \* body parts in one answer of the pose model (SpecPose)
MaxCalls == 2       \* estimateHands calls that can be in progress (SpecOverlap)
MaxLog == 4         \* messages kept in the log (SpecCanvas)

\* ------------------------------------------------------ program constants
\* UPDATE_REGION_OF_INTEREST_IOU_THRESHOLD = 0.8 = IouThresholdNum / IouThresholdDen
IouThresholdNum == 4
IouThresholdDen == 5

\* line 214: Number.MAX_SAFE_INTEGER is 2^53 - 1; the model takes the
\* greatest integer TLC represents, which like it exceeds every skipFrames
MAX_SAFE_INTEGER == 2147483647

\* ------------------------------------------------------------------ state
VARIABLES
  regionsOfInterest,        \* this.regionsOfInterest : sequence of Box
  runsWithoutHandDetector,  \* this.runsWithoutHandDetector
  skipFrames,               \* this.skipFrames
  detectedHands,            \* this.detectedHands
  config,                   \* the config object the caller passes to estimateHands
  \* observations of the most recent estimateHands call
  entry,                    \* tracker state when the call was entered
  detectorCalls,            \* number of detector invocations in the call
  boundingBoxPredictions,   \* what the detector returned (<<>> if not invoked)
  useFreshBox,              \* the local useFreshBox after line 96
  predictorRuns,            \* per processed slot: box, confidence
  returned,                 \* "none" (no call yet), "null", "hands"
  hands,                    \* the returned list of hands
  lowSlots,                 \* slots of the most recent call below minConfidence
  sinceFresh,               \* calls since the last forced fresh detection
  runSkip,                  \* config.skipFrames of that run of calls
  \* observations of the most recent updateRegionsOfInterest (SpecROI)
  roiPrevious,              \* <<previousBox>> or <<>>
  roiNew,                   \* <<newBox>> or <<>>
  \* a call of calculateLandmarksBoundingBox (SpecLandmarks)
  landmarks,                \* the argument, a sequence of points
  landmarksBox,             \* <<the box returned>>, or <<>> before the call
  \* a call of transformRawCoords (SpecTransform)
  transformArgs,            \* [rawCoords, box2, angle, rotationMatrix]
  transformed,              \* <<the list returned>>, or <<>> before the call
  \* calls of getCanvasContext (SpecCanvas)
  canvasCall,               \* the last call: its input and its outcome
  logged,                   \* the messages passed to log so far
  \* the pose module (SpecPose)
  skipped,                  \* line 214
  keypoints,                \* line 210: the cached keypoints, as their scores
  poseCall,                 \* the last call of predict: entry state and outcome
  cachedRun,                \* calls since the last model run, none running it
  allEnabled,               \* every call so far had config.body.enabled set
  \* estimateHands with collaborators that can fail (SpecCollab)
  thrown,                   \* how the last call threw, if returned = "threw"
  \* estimateHands calls in progress at once (SpecOverlap)
  calls,                    \* per call: where it is, and its local useFreshBox
  touching                  \* the call that last used the state, and the calls
                            \* then suspended at the await of line 94

handVars == <<regionsOfInterest, runsWithoutHandDetector, skipFrames, detectedHands,
              config, entry, detectorCalls, boundingBoxPredictions, useFreshBox,
              predictorRuns, returned, hands, lowSlots, sinceFresh, runSkip,
              roiPrevious, roiNew>>

landmarkVars == <<landmarks, landmarksBox>>

transformVars == <<transformArgs, transformed>>

canvasVars == <<canvasCall, logged>>

poseVars == <<skipped, keypoints, poseCall, cachedRun, allEnabled>>

\* the variables outside the tracker
otherVars == <<landmarkVars, transformVars, canvasVars, poseVars>>

collabVars == <<thrown, calls, touching>>

vars == <<handVars, otherVars, collabVars>>

\* ------------------------------------------------------------------ boxes
Box(sx, sy, ex, ey) == [startPoint |-> <<sx, sy>>, endPoint |-> <<ex, ey>>]

\* boxes the detector reports (palm boxes) in the tracker specification
DetectorBoxes == {Box(3, 3, 4, 4)}
\* boxes computed from a slot's landmarks (getBoxForHandLandmarks squarifies)
HandBoxes == {Box(0, 0, 6, 6)}

\* every positive-area box of the grid, and the square ones
GridBoxes ==
  {Box(sx, sy, ex, ey) : <<sx, sy, ex, ey>> \in
     {q \in (0..MaxCoord) \X (0..MaxCoord) \X (0..MaxCoord) \X (0..MaxCoord) :
        q[1] < q[3] /\ q[2] < q[4]}}
SquareBoxes ==
  {b \in GridBoxes :
     b.endPoint[1] - b.startPoint[1] = b.endPoint[2] - b.startPoint[2]}

Max(a, b) == IF a >= b THEN a ELSE b
Min(a, b) == IF a <= b THEN a ELSE b

\* ------------------------------------------- updateRegionsOfInterest
\* line 186: intersection, a product of two signed extents
Intersection(newBox, previousBox) ==
  LET xStartMax == Max(newBox.startPoint[1], previousBox.startPoint[1])
      yStartMax == Max(newBox.startPoint[2], previousBox.startPoint[2])
      xEndMin == Min(newBox.endPoint[1], previousBox.endPoint[1])
      yEndMin == Min(newBox.endPoint[2], previousBox.endPoint[2])
  IN (xEndMin - xStartMax) * (yEndMin - yStartMax)

\* line 187
BoxArea(newBox) ==
  (newBox.endPoint[1] - newBox.startPoint[1]) * (newBox.endPoint[2] - newBox.startPoint[2])

\* line 188: the height is previousBoxEndY - boxStartY
PreviousBoxArea(newBox, previousBox) ==
  (previousBox.endPoint[1] - previousBox.startPoint[1])
    * (previousBox.endPoint[2] - newBox.startPoint[2])

\* lines 189, 191: iou = intersection / (boxArea + previousBoxArea - intersection)
\* and the test iou > 0.8, with the division's outcomes for a zero or
\* negative denominator (Infinity, -Infinity, NaN) spelled out
IouAboveThreshold(newBox, previousBox) ==
  LET i == Intersection(newBox, previousBox)
      d == BoxArea(newBox) + PreviousBoxArea(newBox, previousBox) - i
  IN IF d > 0 THEN IouThresholdDen * i > IouThresholdNum * d
     ELSE IF d < 0 THEN IouThresholdDen * i < IouThresholdNum * d
     ELSE i > 0

\* lines 174-192; every slot the loop visits holds a box with a startPoint
updateRegionsOfInterest(roi, newBox, i) ==
  [roi EXCEPT ![i] = IF IouAboveThreshold(newBox, roi[i]) THEN roi[i] ELSE newBox]

\* ------------------------------------------------------------- inputs
Configs ==
  [skipFrames : 0..MaxSkip, maxHands : 1..MaxHands, minConfidence : 2..MaxConf]

RECURSIVE SeqsOfLen(_, _)
SeqsOfLen(S, n) ==
  IF n = 0 THEN {<<>>}
  ELSE {Append(s, x) : s \in SeqsOfLen(S, n - 1), x \in S}

\* lists the detector can return: 0..MaxDet boxes
DetectorResults == UNION {SeqsOfLen(DetectorBoxes, n) : n \in 0..MaxDet}

\* what the predictor yields for one slot: the confidence, and the box that
\* getBoxForHandLandmarks computes from the transformed keypoints
PredictorOutputs == [confidence : 1..MaxConf, nextBoundingBox : HandBoxes]

\* ------------------------------------------------------- estimateHands
UseFreshBoxOnCountMismatchOnly(dh, roi) == dh # Len(roi)

UseFreshBoxOnZeroOnly(dh, roi) == dh = 0

\* line 91
UseFreshBoxAtEntry(dh, roi) == (dh = 0) \/ (dh # Len(roi))

InvokesDetectorOneFrameLate(dh, roi, runs, skip) ==
  UseFreshBoxAtEntry(dh, roi) \/ runs > skip + 1

\* line 94: the condition under which the detector is awaited
InvokesDetector(dh, roi, runs, skip) == UseFreshBoxAtEntry(dh, roi) \/ runs > skip

UseFreshBoxIgnoringMaxHands(fresh, cfg, invoked, preds, dh) ==
  fresh \/ (invoked /\ Len(preds) > 0 /\ Len(preds) # dh)

\* line 96; invoked is FALSE when boundingBoxPredictions is undefined
UseFreshBoxAfterDetection(fresh, cfg, invoked, preds, dh) ==
  fresh \/ (cfg.maxHands > 1 /\ invoked /\ Len(preds) > 0 /\ Len(preds) # dh)

AcceptsStrictlyAbove(confidenceValue, cfg) == confidenceValue > cfg.minConfidence

AcceptsAlways(confidenceValue, cfg) == TRUE

\* line 130
Accepts(confidenceValue, cfg) == confidenceValue >= cfg.minConfidence

\* lines 111-160: the loop over the slots of regionsOfInterest, from slot i.
\* acc.roi is this.regionsOfInterest, acc.hands the local hands (of a hand
\* the slot and the confidence are kept), acc.runs the record of the
\* predictor's invocations.
\* lines 113-159: the iteration of slot i, the predictor yielding out
SlotStep(acc, out, cfg, i) ==
  LET currentBox == acc.roi[i]
      run == [box |-> currentBox, confidence |-> out.confidence]
  IN IF Accepts(out.confidence, cfg)
     THEN [roi |-> updateRegionsOfInterest(acc.roi, out.nextBoundingBox, i),
           hands |-> Append(acc.hands,
                       [slot |-> i, handInViewConfidence |-> out.confidence]),
           runs |-> Append(acc.runs, run)]
     ELSE [roi |-> acc.roi, hands |-> acc.hands, runs |-> Append(acc.runs, run)]

RECURSIVE SlotLoop(_, _, _, _)
SlotLoop(acc, outs, cfg, i) ==
  IF i > Len(acc.roi) THEN acc
  ELSE SlotLoop(SlotStep(acc, outs[i], cfg, i), outs, cfg, i + 1)

\* the slots of a call whose confidence was below config.minConfidence
LowSlots(runs, cfg) ==
  {i \in 1..Len(runs) : runs[i].confidence < cfg.minConfidence}

\* lines 97-110: the region list the loop starts from
RegionsForLoop(fresh, preds, roi) == IF fresh THEN preds ELSE roi

\* lines 107, 109: the counter
RunsAfterDecision(fresh, runs) == IF fresh THEN 0 ELSE runs + 1

DetectedHandsKeptOnNull(null, loopHands, dh) == IF null THEN dh ELSE Len(loopHands)

\* lines 101, 161: this.detectedHands at the end of the call
DetectedHandsAfter(null, loopHands, dh) == IF null THEN 0 ELSE Len(loopHands)

ReturnsNullWithoutLengthCheck(fresh, invoked, preds) == fresh /\ ~invoked

\* lines 99-103: the early return
ReturnsNull(fresh, invoked, preds) == fresh /\ (~invoked \/ Len(preds) = 0)

\* the tracked count is stable: detectedHands == regionsOfInterest.length > 0
Stable(dh, roi) == dh = Len(roi) /\ dh > 0

\* lines 88-163, one whole call with the argument config.  invoked says
\* whether line 94 awaited the detector, preds is its result, outs the
\* predictor's output per slot.
Frame(invoked, preds, outs) ==
  \E fresh0 \in {UseFreshBoxAtEntry(detectedHands, regionsOfInterest)} :
  \E fresh \in {UseFreshBoxAfterDetection(fresh0, config, invoked, preds, detectedHands)} :
  \E null \in {ReturnsNull(fresh, invoked, preds)} :
  \E loop \in {SlotLoop([roi |-> RegionsForLoop(fresh, preds, regionsOfInterest),
                         hands |-> <<>>, runs |-> <<>>], outs, config, 1)} :
  \E quiet \in {IF sinceFresh >= 0 /\ config.skipFrames = runSkip
                THEN sinceFresh ELSE -1} :
     /\ skipFrames' = config.skipFrames
     /\ entry' = [detectedHands |-> detectedHands,
                  regionsOfInterest |-> regionsOfInterest,
                  runsWithoutHandDetector |-> runsWithoutHandDetector,
                  quiet |-> quiet,
                  lowSlots |-> lowSlots]
     /\ detectorCalls' = IF invoked THEN 1 ELSE 0
     /\ boundingBoxPredictions' = preds
     /\ useFreshBox' = fresh
     /\ regionsOfInterest' = IF null THEN <<>> ELSE loop.roi
     /\ detectedHands' = DetectedHandsAfter(null, loop.hands, detectedHands)
     /\ runsWithoutHandDetector' =
          IF null THEN runsWithoutHandDetector
          ELSE RunsAfterDecision(fresh, runsWithoutHandDetector)
     /\ runsWithoutHandDetector' <= MaxRuns
     /\ predictorRuns' = IF null THEN <<>> ELSE loop.runs
     /\ returned' = IF null THEN "null" ELSE "hands"
     /\ hands' = IF null THEN <<>> ELSE loop.hands
     /\ lowSlots' = IF null THEN {} ELSE LowSlots(loop.runs, config)
     /\ sinceFresh' =
          IF null \/ ~Stable(Len(loop.hands), loop.roi) THEN -1
          ELSE IF fresh0 THEN 0
          ELSE IF ~invoked /\ quiet >= 0 THEN quiet + 1
          ELSE -1
     /\ runSkip' = IF fresh0 THEN config.skipFrames ELSE runSkip
     /\ UNCHANGED <<config, roiPrevious, roiNew, otherVars>>

\* number of slots the loop visits, given the detector's answer
LoopLength(invoked, preds) ==
  LET fresh == UseFreshBoxAfterDetection(
                 UseFreshBoxAtEntry(detectedHands, regionsOfInterest),
                 config, invoked, preds, detectedHands)
  IN IF ReturnsNull(fresh, invoked, preds) THEN 0
     ELSE Len(RegionsForLoop(fresh, preds, regionsOfInterest))

\* a call in which line 94 does not invoke the detector
EstimateHandsTracked ==
  /\ ~InvokesDetector(detectedHands, regionsOfInterest,
                      runsWithoutHandDetector, config.skipFrames)
  /\ \E outs \in SeqsOfLen(PredictorOutputs, LoopLength(FALSE, <<>>)) :
       Frame(FALSE, <<>>, outs)
  /\ UNCHANGED collabVars

\* a call in which line 94 invokes the detector and gets preds
EstimateHandsDetect ==
  /\ InvokesDetector(detectedHands, regionsOfInterest,
                     runsWithoutHandDetector, config.skipFrames)
  /\ \E preds \in DetectorResults :
       \E outs \in SeqsOfLen(PredictorOutputs, LoopLength(TRUE, preds)) :
         Frame(TRUE, preds, outs)
  /\ UNCHANGED collabVars

NoEntry == [detectedHands |-> 0, regionsOfInterest |-> <<>>,
            runsWithoutHandDetector |-> 0, quiet |-> -1, lowSlots |-> {}]

\* line 88: the caller passes another config from now on.  The observations
\* describe calls made with the current config, so they start afresh; the
\* tracker keeps its state.
Reconfigure ==
  /\ returned # "none"
  /\ \E cfg \in Configs \ {config} : config' = cfg
  /\ entry' = NoEntry
  /\ detectorCalls' = 0
  /\ boundingBoxPredictions' = <<>>
  /\ useFreshBox' = FALSE
  /\ predictorRuns' = <<>>
  /\ returned' = "none"
  /\ hands' = <<>>
  /\ UNCHANGED <<regionsOfInterest, runsWithoutHandDetector, skipFrames,
                 detectedHands, lowSlots, sinceFresh, runSkip,
                 roiPrevious, roiNew, otherVars, collabVars>>

\* nothing outside the tracker has been called
LandmarksIdle == landmarks = <<>> /\ landmarksBox = <<>>

NoTransformArgs == [rawCoords |-> <<>>, box2 |-> Box(0, 0, 0, 0), angle |-> 0,
                    rotationMatrix |-> <<>>]

TransformIdle == transformArgs = NoTransformArgs /\ transformed = <<>>

NoCanvasCall == [input |-> "none", result |-> "none", getContextCalls |-> 0,
                 threw |-> FALSE]

CanvasIdle == canvasCall = NoCanvasCall /\ logged = <<>>

NoPoseConfig == [skipFrame |-> FALSE,
                 body |-> [skipFrames |-> 0, enabled |-> FALSE, minConfidence |-> 0]]

NoPoseCall == [called |-> FALSE, first |-> FALSE, config |-> NoPoseConfig,
               skipped |-> 0, keypoints |-> <<>>, modelRuns |-> 0,
               returned |-> <<>>]

\* lines 210, 214: the module as loaded
PoseIdle ==
  /\ skipped = MAX_SAFE_INTEGER
  /\ keypoints = <<>>
  /\ poseCall = NoPoseCall
  /\ cachedRun = 0
  /\ allEnabled = TRUE

NoThrow == [by |-> "none", slot |-> 0, predictorCalls |-> 0]

CallIds == 1..MaxCalls

\* no call of estimateHands is in progress
CallsIdle ==
  /\ calls = [c \in CallIds |-> [pc |-> "idle", useFreshBox |-> FALSE]]
  /\ touching = [call |-> 0, suspended |-> {}]

OthersIdle ==
  /\ LandmarksIdle /\ TransformIdle /\ CanvasIdle /\ PoseIdle
  /\ thrown = NoThrow /\ CallsIdle

\* lines 32-40: the constructor; no call observed yet
Init ==
  /\ OthersIdle
  /\ regionsOfInterest = <<>>
  /\ runsWithoutHandDetector = 0
  /\ skipFrames = 0
  /\ detectedHands = 0
  /\ config \in Configs
  /\ entry = NoEntry
  /\ detectorCalls = 0
  /\ boundingBoxPredictions = <<>>
  /\ useFreshBox = FALSE
  /\ predictorRuns = <<>>
  /\ returned = "none"
  /\ hands = <<>>
  /\ lowSlots = {}
  /\ sinceFresh = -1
  /\ runSkip = 0
  /\ roiPrevious = <<>>
  /\ roiNew = <<>>

Next == EstimateHandsTracked \/ EstimateHandsDetect \/ Reconfigure

Spec == Init /\ [][Next]_vars

\* ------------------------------------------ updateRegionsOfInterest alone
\* A tracker holding one slot whose box the detector reported: any box of
\* the grid.
InitROI ==
  /\ OthersIdle
  /\ regionsOfInterest \in {<<p>> : p \in GridBoxes}
  /\ runsWithoutHandDetector = 0
  /\ skipFrames = 0
  /\ detectedHands = 0
  /\ config = [skipFrames |-> 0, maxHands |-> 1, minConfidence |-> 2]
  /\ entry = NoEntry
  /\ detectorCalls = 0
  /\ boundingBoxPredictions = <<>>
  /\ useFreshBox = FALSE
  /\ predictorRuns = <<>>
  /\ returned = "none"
  /\ hands = <<>>
  /\ lowSlots = {}
  /\ sinceFresh = -1
  /\ runSkip = 0
  /\ roiPrevious = <<>>
  /\ roiNew = <<>>

\* line 137: updateRegionsOfInterest(nextBoundingBox, i) with the square box
\* computed from the slot's landmarks
UpdateRegionsOfInterest ==
  \E newBox \in SquareBoxes, i \in 1..Len(regionsOfInterest) :
    /\ roiPrevious' = <<regionsOfInterest[i]>>
    /\ roiNew' = <<newBox>>
    /\ regionsOfInterest' = updateRegionsOfInterest(regionsOfInterest, newBox, i)
    /\ UNCHANGED <<runsWithoutHandDetector, skipFrames, detectedHands, config,
                   entry, detectorCalls, boundingBoxPredictions, useFreshBox,
                   predictorRuns, returned, hands, lowSlots, sinceFresh, runSkip,
                   otherVars, collabVars>>

NextROI == UpdateRegionsOfInterest

SpecROI == InitROI /\ [][NextROI]_vars

\* --------------------------------------- calculateLandmarksBoundingBox
\* Math.min(...xs) and Math.max(...xs) of a non-empty list
RECURSIVE MinOf(_)
MinOf(xs) == IF Len(xs) = 1 THEN xs[1] ELSE Min(xs[1], MinOf(Tail(xs)))

RECURSIVE MaxOf(_)
MaxOf(xs) == IF Len(xs) = 1 THEN xs[1] ELSE Max(xs[1], MaxOf(Tail(xs)))

calculateLandmarksBoundingBoxOfXsOnly(lms) ==
  LET xs == [i \in 1..Len(lms) |-> lms[i][1]]
  IN Box(MinOf(xs), MinOf(xs), MaxOf(xs), MaxOf(xs))

\* lines 166-172
calculateLandmarksBoundingBox(lms) ==
  LET xs == [i \in 1..Len(lms) |-> lms[i][1]]
      ys == [i \in 1..Len(lms) |-> lms[i][2]]
  IN Box(MinOf(xs), MinOf(ys), MaxOf(xs), MaxOf(ys))

\* a tracker that has processed no frame
HandIdle ==
  /\ regionsOfInterest = <<>>
  /\ runsWithoutHandDetector = 0
  /\ skipFrames = 0
  /\ detectedHands = 0
  /\ config = [skipFrames |-> 0, maxHands |-> 1, minConfidence |-> 2]
  /\ entry = NoEntry
  /\ detectorCalls = 0
  /\ boundingBoxPredictions = <<>>
  /\ useFreshBox = FALSE
  /\ predictorRuns = <<>>
  /\ returned = "none"
  /\ hands = <<>>
  /\ lowSlots = {}
  /\ sinceFresh = -1
  /\ runSkip = 0
  /\ roiPrevious = <<>>
  /\ roiNew = <<>>
  /\ thrown = NoThrow
  /\ CallsIdle

\* the non-empty landmark lists of the model
LandmarkLists ==
  UNION {SeqsOfLen((0..MaxLm) \X (0..MaxLm), n) : n \in 1..MaxLandmarks}

InitLandmarks ==
  /\ HandIdle
  /\ TransformIdle
  /\ CanvasIdle
  /\ PoseIdle
  /\ landmarks \in LandmarkLists
  /\ landmarksBox = <<>>

\* lines 47, 52: a call of calculateLandmarksBoundingBox
CalculateLandmarksBoundingBox ==
  /\ landmarksBox = <<>>
  /\ landmarksBox' = <<calculateLandmarksBoundingBox(landmarks)>>
  /\ UNCHANGED <<handVars, collabVars, landmarks, transformVars, canvasVars, poseVars>>

NextLandmarks == CalculateLandmarksBoundingBox

SpecLandmarks == InitLandmarks /\ [][NextLandmarks]_vars

\* -------------------------------------------------- transformRawCoords
\* Angles are quarter turns k (k * 90 degrees), whose cosine and sine are
\* integers.  A coordinate produced by the transform is <<x, y, depth>> with
\* x and y the numerators of fractions over 2 * InputSize, which is exact.
Cos(k) == CASE k % 4 = 0 -> 1 [] k % 4 = 2 -> -1 [] OTHER -> 0

Sin(k) == CASE k % 4 = 1 -> 1 [] k % 4 = 3 -> -1 [] OTHER -> 0

dot(v1, v2) == v1[1] * v2[1] + v1[2] * v2[2] + v1[3] * v2[3]

\* rotation by k quarter turns about the pivot
buildRotationMatrix(k, pivot) ==
  <<<<Cos(k), -Sin(k), pivot[1] - Cos(k) * pivot[1] + Sin(k) * pivot[2]>>,
    <<Sin(k), Cos(k), pivot[2] - Sin(k) * pivot[1] - Cos(k) * pivot[2]>>,
    <<0, 0, 1>>>>

\* the affine transform applied to (x, y); the result has two components
rotatePoint(point, matrix) ==
  <<dot(<<point[1], point[2], 1>>, matrix[1]),
    dot(<<point[1], point[2], 1>>, matrix[2])>>

\* inverse of a rotation with translation: transposed rotation, and the
\* translation rotated back and negated
invertTransformMatrix(m) ==
  <<<<m[1][1], m[2][1], -(m[1][1] * m[1][3] + m[2][1] * m[2][3])>>,
    <<m[1][2], m[2][2], -(m[1][2] * m[1][3] + m[2][2] * m[2][3])>>,
    <<0, 0, 1>>>>

getBoxSize(b) ==
  <<b.endPoint[1] - b.startPoint[1], b.endPoint[2] - b.startPoint[2]>>

\* the midpoint, as numerators over 2
getBoxCenter2(b) ==
  <<b.startPoint[1] + b.endPoint[1], b.startPoint[2] + b.endPoint[2]>>

CoordScaledWithDepth(coord, boxSize) ==
  <<boxSize[1] * (2 * coord[1] - InputSize),
    boxSize[2] * (2 * coord[2] - InputSize),
    boxSize[1] * coord[3]>>

\* lines 65-69: scaleFactor * (coord - inputSize / 2), over 2 * InputSize
CoordScaled(coord, boxSize) ==
  <<boxSize[1] * (2 * coord[1] - InputSize),
    boxSize[2] * (2 * coord[2] - InputSize),
    coord[3]>>

\* lines 62-86
transformRawCoords(rawCoords, box2, angle, rotationMatrix) ==
  LET boxSize == getBoxSize(box2)
      coordsScaled == [i \in 1..Len(rawCoords) |-> CoordScaled(rawCoords[i], boxSize)]
      coordsRotationMatrix == buildRotationMatrix(angle, <<0, 0>>)
      coordsRotated ==
        [i \in 1..Len(coordsScaled) |->
           rotatePoint(coordsScaled[i], coordsRotationMatrix) \o <<coordsScaled[i][3]>>]
      inverseRotationMatrix == invertTransformMatrix(rotationMatrix)
      boxCenter == getBoxCenter2(box2) \o <<2>>
      originalBoxCenter == <<InputSize * dot(boxCenter, inverseRotationMatrix[1]),
                             InputSize * dot(boxCenter, inverseRotationMatrix[2])>>
  IN [i \in 1..Len(coordsRotated) |->
        <<coordsRotated[i][1] + originalBoxCenter[1],
          coordsRotated[i][2] + originalBoxCenter[2],
          coordsRotated[i][3]>>]

\* raw coordinates: two positions of the input square, every depth
RawCoords == {<<0, 0>>, <<InputSize, 1>>} \X (0..MaxDepth)

RawCoordLists == UNION {SeqsOfLen({<<c[1][1], c[1][2], c[2]>> : c \in RawCoords}, n) :
                        n \in 0..MaxRawLen}

CropBoxes == {Box(0, 0, 2, 2), Box(1, 0, 4, 6)}

RotationMatrices ==
  {buildRotationMatrix(k, pivot) : k \in 0..3, pivot \in {<<0, 0>>, <<1, 2>>}}

InitTransform ==
  /\ HandIdle
  /\ LandmarksIdle
  /\ CanvasIdle
  /\ PoseIdle
  /\ transformArgs \in [rawCoords : RawCoordLists, box2 : CropBoxes,
                        angle : 0..3, rotationMatrix : RotationMatrices]
  /\ transformed = <<>>

\* line 135: a call of transformRawCoords
TransformRawCoords ==
  /\ transformed = <<>>
  /\ transformed' = <<transformRawCoords(transformArgs.rawCoords, transformArgs.box2,
                                         transformArgs.angle,
                                         transformArgs.rotationMatrix)>>
  /\ UNCHANGED <<handVars, collabVars, landmarkVars, transformArgs, canvasVars, poseVars>>

NextTransform == TransformRawCoords

SpecTransform == InitTransform /\ [][NextTransform]_vars

\* ---------------------------------------------------- getCanvasContext
\* The inputs: null, undefined, an object without getContext, a canvas
\* whose getContext('2d') yields null, a canvas that yields a 2d context.
CanvasInputs == {"null", "undefined", "noGetContext", "contextless", "canvas"}

\* !input is false
Truthy(input) == input \notin {"null", "undefined"}

\* !input.getContext is false
HasGetContext(input) == input \in {"contextless", "canvas"}

\* input.getContext('2d'): calling what is not there throws a TypeError
GetContext2d(input) ==
  IF ~Truthy(input) \/ ~HasGetContext(input)
  THEN [threw |-> TRUE, ctx |-> "none"]
  ELSE [threw |-> FALSE, ctx |-> IF input = "canvas" THEN "ctx" ELSE "null"]

Outcome(result, n, threw, messages) ==
  [result |-> result, getContextCalls |-> n, threw |-> threw, log |-> messages]

\* the outcome of lines 10-12, once getContext is called
AfterGetContext(input) ==
  LET got == GetContext2d(input)
  IN IF got.threw THEN Outcome("none", 1, TRUE, <<>>)
     ELSE IF got.ctx = "null"
          THEN Outcome("null", 1, FALSE, <<"cannot get canvas context">>)
          ELSE Outcome("ctx", 1, FALSE, <<>>)

getCanvasContextWithoutGetContextCheck(input) ==
  IF ~Truthy(input) THEN Outcome("null", 0, FALSE, <<"invalid canvas">>)
  ELSE AfterGetContext(input)

\* primitives.ts lines 6-15
getCanvasContext(input) ==
  IF ~Truthy(input) THEN Outcome("null", 0, FALSE, <<"invalid canvas">>)
  ELSE IF ~HasGetContext(input)
       THEN Outcome("null", 0, FALSE, <<"canvas context not defined">>)
       ELSE AfterGetContext(input)

InitCanvas ==
  /\ HandIdle
  /\ LandmarksIdle
  /\ TransformIdle
  /\ CanvasIdle
  /\ PoseIdle

\* a call of getCanvasContext
GetCanvasContext ==
  /\ Len(logged) < MaxLog
  /\ \E input \in CanvasInputs :
       \E out \in {getCanvasContext(input)} :
         /\ canvasCall' = [input |-> input, result |-> out.result,
                           getContextCalls |-> out.getContextCalls,
                           threw |-> out.threw]
         /\ logged' = logged \o out.log
  /\ UNCHANGED <<handVars, collabVars, landmarkVars, transformVars, poseVars>>

NextCanvas == GetCanvasContext

SpecCanvas == InitCanvas /\ [][NextCanvas]_vars

\* ------------------------------------------------- pose module predict
PoseConfigs == [skipFrame : BOOLEAN,
                body : [skipFrames : 0..MaxPoseSkip, enabled : BOOLEAN,
                        minConfidence : {0}]]

\* the scores of one answer of the model, one per body part
ModelAnswers == UNION {SeqsOfLen(0..1, n) : n \in 1..MaxKeypoints}

ReturnsCachedIgnoringEmpty(skp, cfg, kps) ==
  skp < cfg.body.skipFrames /\ cfg.skipFrame

\* line 229
ReturnsCached(skp, cfg, kps) ==
  skp < cfg.body.skipFrames /\ cfg.skipFrame /\ Len(kps) > 0

\* lines 249-253: the scores above config.body.minConfidence, in order
RECURSIVE KeptKeypoints(_, _)
KeptKeypoints(kpt, cfg) ==
  IF kpt = <<>> THEN <<>>
  ELSE (IF Head(kpt) > cfg.body.minConfidence THEN <<Head(kpt)>> ELSE <<>>)
       \o KeptKeypoints(Tail(kpt), cfg)

PoseEntry(cfg, runs, kps) ==
  [called |-> TRUE, first |-> ~poseCall.called, config |-> cfg,
   skipped |-> skipped, keypoints |-> keypoints, modelRuns |-> runs,
   returned |-> kps]

\* lines 229-232: the cached body is returned
PredictCached ==
  \E cfg \in PoseConfigs :
    /\ ReturnsCached(skipped, cfg, keypoints)
    /\ skipped' = skipped + 1
    /\ poseCall' = PoseEntry(cfg, 0, keypoints)
    /\ cachedRun' = Min(cachedRun + 1, MaxPoseSkip + 1)
    /\ allEnabled' = (allEnabled /\ cfg.body.enabled)
    /\ UNCHANGED <<keypoints, handVars, collabVars, landmarkVars, transformVars,
                   canvasVars>>

\* lines 233-286: the model runs if config.body.enabled
PredictRun ==
  \E cfg \in PoseConfigs, kpt \in ModelAnswers :
    /\ ~ReturnsCached(skipped, cfg, keypoints)
    /\ skipped' = 0
    /\ keypoints' = IF cfg.body.enabled THEN KeptKeypoints(kpt, cfg) ELSE keypoints
    /\ poseCall' = PoseEntry(cfg, IF cfg.body.enabled THEN 1 ELSE 0, keypoints')
    /\ cachedRun' = IF cfg.body.enabled THEN 0 ELSE Min(cachedRun + 1, MaxPoseSkip + 1)
    /\ allEnabled' = (allEnabled /\ cfg.body.enabled)
    /\ UNCHANGED <<handVars, collabVars, landmarkVars, transformVars, canvasVars>>

InitPose ==
  /\ HandIdle
  /\ LandmarksIdle
  /\ TransformIdle
  /\ CanvasIdle
  /\ PoseIdle

NextPose == PredictCached \/ PredictRun

SpecPose == InitPose /\ [][NextPose]_vars

\* --------------------------- estimateHands, collaborators that can fail
\* A Box of the data model whose optional palmLandmarks is absent carries
\* the field palmLandmarks with the value "undefined"; the other boxes of
\* the model have palm landmarks.
BareBox(sx, sy, ex, ey) ==
  [startPoint |-> <<sx, sy>>, endPoint |-> <<ex, ey>>, palmLandmarks |-> "undefined"]

HasPalmLandmarks(b) == "palmLandmarks" \notin DOMAIN b

\* what the detector can return: boxes with or without palmLandmarks
CollabDetectorBoxes == DetectorBoxes \cup {BareBox(3, 3, 4, 4)}

CollabDetectorResults == UNION {SeqsOfLen(CollabDetectorBoxes, n) : n \in 0..MaxDet}

\* what meshDetector.predict does for one slot: it yields an output or fails
Fails(out) == "fails" \in DOMAIN out

\* a confidence below or at the minConfidence of CollabConfigs, or a failure
CollabPredictorOutputs ==
  [confidence : {1, 2}, nextBoundingBox : HandBoxes] \cup {[fails |-> TRUE]}

\* the config of the caller of this specification
CollabConfigs == {[skipFrames |-> 0, maxHands |-> 2, minConfidence |-> 2]}

\* the predictor's behaviour over the n slots of a call; nothing is asked
\* of it after a failure, so the entries after one are all "fails"
CollabOutputLists(n) ==
  {outs \in SeqsOfLen(CollabPredictorOutputs, n) :
     \A j \in 1..n : Fails(outs[j]) => \A m \in j..n : Fails(outs[m])}

RECURSIVE SlotLoopCollab(_, _, _, _)

RECURSIVE SlotLoopCollabRetrying(_, _, _, _)
SlotLoopCollabRetrying(acc, outs, cfg, i) ==
  IF i > Len(acc.roi) THEN acc
  ELSE IF ~HasPalmLandmarks(acc.roi[i])
       THEN [acc EXCEPT !.by = "palmLandmarks", !.slot = i]
       ELSE IF Fails(outs[i])
            THEN [acc EXCEPT !.by = "predictor", !.slot = i,
                             !.predictorCalls = @ + 2]
            ELSE SlotLoopCollabRetrying(
                   SlotStep([roi |-> acc.roi, hands |-> acc.hands, runs |-> acc.runs],
                            outs[i], cfg, i)
                     @@ [by |-> "none", slot |-> 0,
                         predictorCalls |-> acc.predictorCalls + 1],
                   outs, cfg, i + 1)

\* lines 111-160 with nothing caught: the loop ends at the first slot whose
\* box has no palmLandmarks (line 115 reads palmLandmarks[0] of undefined)
\* or whose meshDetector.predict fails (line 125)
SlotLoopCollab(acc, outs, cfg, i) ==
  IF i > Len(acc.roi) THEN acc
  ELSE IF ~HasPalmLandmarks(acc.roi[i])
       THEN [acc EXCEPT !.by = "palmLandmarks", !.slot = i]
       ELSE IF Fails(outs[i])
            THEN [acc EXCEPT !.by = "predictor", !.slot = i,
                             !.predictorCalls = @ + 1]
            ELSE SlotLoopCollab(
                   SlotStep([roi |-> acc.roi, hands |-> acc.hands, runs |-> acc.runs],
                            outs[i], cfg, i)
                     @@ [by |-> "none", slot |-> 0,
                         predictorCalls |-> acc.predictorCalls + 1],
                   outs, cfg, i + 1)

\* lines 89-94, the detector failing: only this.skipFrames has been set
DetectorThrows ==
  /\ skipFrames' = config.skipFrames
  /\ entry' = [detectedHands |-> detectedHands,
               regionsOfInterest |-> regionsOfInterest,
               runsWithoutHandDetector |-> runsWithoutHandDetector,
               quiet |-> -1, lowSlots |-> lowSlots]
  /\ detectorCalls' = 1
  /\ boundingBoxPredictions' = <<>>
  /\ useFreshBox' = UseFreshBoxAtEntry(detectedHands, regionsOfInterest)
  /\ predictorRuns' = <<>>
  /\ returned' = "threw"
  /\ hands' = <<>>
  /\ lowSlots' = {}
  /\ sinceFresh' = -1
  /\ thrown' = [by |-> "detector", slot |-> 0, predictorCalls |-> 0]
  /\ UNCHANGED <<calls, touching, regionsOfInterest, runsWithoutHandDetector, detectedHands,
                 config, runSkip, roiPrevious, roiNew, otherVars>>

\* lines 88-160, the loop throwing: line 161 is not reached
LoopThrows(invoked, preds, fresh, loop) ==
  /\ skipFrames' = config.skipFrames
  /\ entry' = [detectedHands |-> detectedHands,
               regionsOfInterest |-> regionsOfInterest,
               runsWithoutHandDetector |-> runsWithoutHandDetector,
               quiet |-> -1, lowSlots |-> lowSlots]
  /\ detectorCalls' = IF invoked THEN 1 ELSE 0
  /\ boundingBoxPredictions' = preds
  /\ useFreshBox' = fresh
  /\ regionsOfInterest' = loop.roi
  /\ runsWithoutHandDetector' = RunsAfterDecision(fresh, runsWithoutHandDetector)
  /\ runsWithoutHandDetector' <= MaxRuns
  /\ predictorRuns' = loop.runs
  /\ returned' = "threw"
  /\ hands' = <<>>
  /\ lowSlots' = {}
  /\ sinceFresh' = -1
  /\ thrown' = [by |-> loop.by, slot |-> loop.slot,
                predictorCalls |-> loop.predictorCalls]
  /\ UNCHANGED <<calls, touching, detectedHands, config, runSkip, roiPrevious, roiNew, otherVars>>

\* lines 88-163, one whole call; it completes as Frame says unless the
\* loop throws
CollabFrame(invoked, preds, outs) ==
  \E fresh \in {UseFreshBoxAfterDetection(
                  UseFreshBoxAtEntry(detectedHands, regionsOfInterest),
                  config, invoked, preds, detectedHands)} :
  \E loop \in {SlotLoopCollab(
                 [roi |-> RegionsForLoop(fresh, preds, regionsOfInterest),
                  hands |-> <<>>, runs |-> <<>>,
                  by |-> "none", slot |-> 0, predictorCalls |-> 0],
                 outs, config, 1)} :
    IF ReturnsNull(fresh, invoked, preds) \/ loop.by = "none"
    THEN /\ Frame(invoked, preds, outs)
         /\ thrown' = [NoThrow EXCEPT !.predictorCalls =
                         IF ReturnsNull(fresh, invoked, preds) THEN 0
                         ELSE loop.predictorCalls]
         /\ UNCHANGED <<calls, touching>>
    ELSE LoopThrows(invoked, preds, fresh, loop)

\* a call in which line 94 does not invoke the detector
CollabTracked ==
  /\ ~InvokesDetector(detectedHands, regionsOfInterest,
                      runsWithoutHandDetector, config.skipFrames)
  /\ \E outs \in CollabOutputLists(LoopLength(FALSE, <<>>)) :
       CollabFrame(FALSE, <<>>, outs)

\* a call in which line 94 invokes the detector and gets preds
CollabDetect ==
  /\ InvokesDetector(detectedHands, regionsOfInterest,
                     runsWithoutHandDetector, config.skipFrames)
  /\ \E preds \in CollabDetectorResults :
       \E outs \in CollabOutputLists(LoopLength(TRUE, preds)) :
         CollabFrame(TRUE, preds, outs)

\* a call in which line 94 invokes the detector, which fails
CollabDetectorFails ==
  /\ InvokesDetector(detectedHands, regionsOfInterest,
                     runsWithoutHandDetector, config.skipFrames)
  /\ DetectorThrows

\* the caller keeps the config it starts with
NextCollab == CollabTracked \/ CollabDetect \/ CollabDetectorFails

InitCollab == Init /\ config \in CollabConfigs

SpecCollab == InitCollab /\ [][NextCollab]_vars

\* ------------------------------------------- estimateHands, overlapping
\* estimateHands is an async function whose only await is at line 94: a
\* call runs lines 89-94 when it is made, and if it awaits the detector it
\* runs lines 96-162 when the detector's promise resolves; other calls can
\* be made in between.  A call that does not invoke the detector runs to
\* its end when it is made.

\* the observations of single calls are not kept here
ObservationsUnchanged ==
  UNCHANGED <<config, entry, detectorCalls, boundingBoxPredictions, useFreshBox,
              predictorRuns, returned, hands, lowSlots, sinceFresh, runSkip,
              roiPrevious, roiNew, otherVars, thrown>>

\* the calls other than c that are suspended at line 94
Suspended(c) == {d \in CallIds \ {c} : calls[d].pc = "awaiting"}

\* line 96, with the useFreshBox the call computed at line 91
FreshOnResume(fresh0, invoked, preds) ==
  UseFreshBoxAfterDetection(fresh0, config, invoked, preds, detectedHands)

\* number of slots the loop of lines 112-160 visits
SlotsOnResume(fresh0, invoked, preds) ==
  IF ReturnsNull(FreshOnResume(fresh0, invoked, preds), invoked, preds) THEN 0
  ELSE Len(RegionsForLoop(FreshOnResume(fresh0, invoked, preds), preds,
                          regionsOfInterest))

\* lines 96-162 on the tracker's state as it is now
RestOfCall(fresh0, invoked, preds, outs) ==
  \E fresh \in {FreshOnResume(fresh0, invoked, preds)} :
  \E null \in {ReturnsNull(fresh, invoked, preds)} :
  \E loop \in {SlotLoop([roi |-> RegionsForLoop(fresh, preds, regionsOfInterest),
                         hands |-> <<>>, runs |-> <<>>], outs, config, 1)} :
    /\ regionsOfInterest' = IF null THEN <<>> ELSE loop.roi
    /\ detectedHands' = DetectedHandsAfter(null, loop.hands, detectedHands)
    /\ runsWithoutHandDetector' =
         IF null THEN runsWithoutHandDetector
         ELSE RunsAfterDecision(fresh, runsWithoutHandDetector)
    /\ runsWithoutHandDetector' <= MaxRuns

\* lines 89-162 of a call that does not invoke the detector
CallRunsThrough(c) ==
  /\ calls[c].pc = "idle"
  /\ ~InvokesDetector(detectedHands, regionsOfInterest,
                      runsWithoutHandDetector, config.skipFrames)
  /\ skipFrames' = config.skipFrames
  /\ \E outs \in SeqsOfLen(PredictorOutputs, SlotsOnResume(FALSE, FALSE, <<>>)) :
       RestOfCall(FALSE, FALSE, <<>>, outs)
  /\ touching' = [call |-> c, suspended |-> Suspended(c)]
  /\ UNCHANGED calls
  /\ ObservationsUnchanged

\* lines 89-94 of a call that invokes the detector and is suspended
CallAwaits(c) ==
  /\ calls[c].pc = "idle"
  /\ InvokesDetector(detectedHands, regionsOfInterest,
                     runsWithoutHandDetector, config.skipFrames)
  /\ skipFrames' = config.skipFrames
  /\ calls' = [calls EXCEPT ![c] =
                 [pc |-> "awaiting",
                  useFreshBox |-> UseFreshBoxAtEntry(detectedHands, regionsOfInterest)]]
  /\ touching' = [call |-> c, suspended |-> Suspended(c)]
  /\ UNCHANGED <<regionsOfInterest, runsWithoutHandDetector, detectedHands>>
  /\ ObservationsUnchanged

\* lines 94-162 of a suspended call, the detector answering preds
DetectorResolves(c) ==
  /\ calls[c].pc = "awaiting"
  /\ \E preds \in DetectorResults :
       \E outs \in SeqsOfLen(PredictorOutputs,
                             SlotsOnResume(calls[c].useFreshBox, TRUE, preds)) :
         RestOfCall(calls[c].useFreshBox, TRUE, preds, outs)
  /\ calls' = [calls EXCEPT ![c] = [pc |-> "idle", useFreshBox |-> FALSE]]
  /\ touching' = [call |-> c, suspended |-> Suspended(c)]
  /\ UNCHANGED skipFrames
  /\ ObservationsUnchanged

NextOverlap ==
  \E c \in CallIds : CallRunsThrough(c) \/ CallAwaits(c) \/ DetectorResolves(c)

SpecOverlap == InitCollab /\ [][NextOverlap]_vars

\* ================================================================ claims
Called == returned # "none"

\* the boxes the predictor ran on, in slot order
PredictedBoxes == [i \in 1..Len(predictorRuns) |-> predictorRuns[i].box]

\* the call was entered with a stable tracked count
EntryStable == Stable(entry.detectedHands, entry.regionsOfInterest)

\* ---------------------------------------------------------------- C1
\* C1: with skipFrames = N and a stable tracked count, after a forced fresh
\* detection the detector is invoked on none of the next N calls and on the
\* call after those.  entry.quiet counts the calls since that detection, all
\* of them made with this call's skipFrames and ending with a stable count.
C1_DetectorEverySkipFrames ==
  (/\ Called
   /\ entry.quiet >= 0
   /\ entry.quiet <= config.skipFrames
   /\ Stable(detectedHands, regionsOfInterest))
    => (detectorCalls = 1 <=> entry.quiet = config.skipFrames)

\* ---------------------------------------------------------------- C2
\* C2: a call that invokes the detector and returns hands ends with
\* runsWithoutHandDetector = 0; a call that does not invoke the detector
\* increments runsWithoutHandDetector by exactly 1.
C2_CounterResetsOnDetectorRun ==
  Called =>
    /\ (detectorCalls = 1 /\ returned = "hands" /\ hands # <<>>)
         => runsWithoutHandDetector = 0
    /\ detectorCalls = 0 =>
         runsWithoutHandDetector = entry.runsWithoutHandDetector + 1

\* ---------------------------------------------------------------- C3
Cleared ==
  /\ regionsOfInterest = <<>>
  /\ detectedHands = 0
  /\ predictorRuns = <<>>
  /\ returned = "null"

\* C3 as stated: whenever the detector is invoked and returns zero regions,
\* the tracker clears its state, the predictor is not invoked and the call
\* reports no hands.
C3_EmptyDetectionClears ==
  (Called /\ detectorCalls = 1 /\ Len(boundingBoxPredictions) = 0) => Cleared

\* C3 amended: whenever the detector is invoked in a call entered with
\* detectedHands = 0 or detectedHands # regionsOfInterest.length, and returns
\* zero regions, the tracker clears its state, the predictor is not invoked
\* and the call reports no hands.
C3_ForcedEmptyDetectionClears ==
  (/\ Called
   /\ detectorCalls = 1
   /\ Len(boundingBoxPredictions) = 0
   /\ (entry.detectedHands = 0
         \/ entry.detectedHands # Len(entry.regionsOfInterest)))
    => Cleared

C3_Witness ==
  /\ Called
  /\ detectorCalls = 1
  /\ Len(boundingBoxPredictions) = 0
  /\ Len(entry.regionsOfInterest) = 2
  /\ entry.detectedHands = 1
  /\ Cleared

\* ---------------------------------------------------------------- C4
\* C4: a call entered with detectedHands = 0 invokes the detector, whatever
\* skipFrames, runsWithoutHandDetector and regionsOfInterest are.
C4_ZeroDetectedForcesDetector ==
  (Called /\ entry.detectedHands = 0) => detectorCalls = 1

C4_Witness ==
  /\ Called
  /\ entry.detectedHands = 0
  /\ Len(entry.regionsOfInterest) > 0
  /\ entry.runsWithoutHandDetector <= config.skipFrames
  /\ detectorCalls = 1

\* ---------------------------------------------------------------- C5
\* the intersection area of two boxes, zero when they do not overlap
OverlapArea(a, b) ==
  LET w == Min(a.endPoint[1], b.endPoint[1]) - Max(a.startPoint[1], b.startPoint[1])
      h == Min(a.endPoint[2], b.endPoint[2]) - Max(a.startPoint[2], b.startPoint[2])
  IN IF w > 0 /\ h > 0 THEN w * h ELSE 0

\* intersection over union above 0.8, each area from the box's own coordinates
IntersectionOverUnionAboveThreshold(a, b) ==
  LET i == OverlapArea(a, b)
      u == BoxArea(a) + BoxArea(b) - i
  IN IouThresholdDen * i > IouThresholdNum * u

Updated == roiNew # <<>>

\* C5: whenever the intersection over union of the new box and the slot's
\* previous box exceeds 0.8, the slot holds the previous box after
\* updateRegionsOfInterest.
C5_StableBoxKept ==
  (Updated /\ IntersectionOverUnionAboveThreshold(roiNew[1], roiPrevious[1]))
    => regionsOfInterest[1] = roiPrevious[1]

\* ---------------------------------------------------------------- C6
\* C6: whenever the new box and the slot's previous box do not overlap, the
\* slot holds the new box after updateRegionsOfInterest.
C6_DisjointBoxReplaced ==
  (Updated /\ OverlapArea(roiNew[1], roiPrevious[1]) = 0)
    => regionsOfInterest[1] = roiNew[1]

\* ---------------------------------------------------------------- C7
\* C7: after any call the number of tracked slots is at most config.maxHands.
C7_SlotsCappedByMaxHands ==
  Called => Len(regionsOfInterest) <= config.maxHands

\* ---------------------------------------------------------------- C8
\* in this call, a slot below config.minConfidence yields no hand and keeps
\* its box
LowSlotDropped ==
  \A i \in LowSlots(predictorRuns, config) :
    /\ \A k \in 1..Len(hands) : hands[k].slot # i
    /\ regionsOfInterest[i] = predictorRuns[i].box

\* C8 as stated: a slot below config.minConfidence yields no hand, keeps its
\* box, and the next call runs the predictor on that slot again.
C8_LowSlotRetried ==
  Called =>
    /\ LowSlotDropped
    /\ \A i \in entry.lowSlots :
         /\ i <= Len(predictorRuns)
         /\ i <= Len(entry.regionsOfInterest)
         /\ predictorRuns[i].box = entry.regionsOfInterest[i]

\* C8 amended: a slot below config.minConfidence yields no hand and keeps its
\* box until the call returns; the next call invokes the detector and
\* replaces the region list by the detector's boxes, so the predictor runs on
\* that slot again exactly when the detector reports a box for it.
C8_LowSlotRedetected ==
  Called =>
    /\ LowSlotDropped
    /\ entry.lowSlots # {} =>
         /\ detectorCalls = 1
         /\ useFreshBox
         /\ PredictedBoxes = boundingBoxPredictions
         /\ \A i \in entry.lowSlots :
              i <= Len(predictorRuns) <=> i <= Len(boundingBoxPredictions)

C8_Witness ==
  /\ Called
  /\ 2 \in entry.lowSlots
  /\ Len(boundingBoxPredictions) = 1
  /\ Len(predictorRuns) = 1
  /\ LowSlots(predictorRuns, config) = {1}
  /\ hands = <<>>
  /\ Len(regionsOfInterest) = 1

\* ---------------------------------------------------------------- C9
\* C9: a call that finds regions returns exactly one entry per tracked slot
\* whose confidence is >= config.minConfidence, in slot order, and no other
\* entry; every returned confidence is >= config.minConfidence.
C9_OneHandPerAcceptedSlot ==
  returned = "hands" =>
    /\ Len(predictorRuns) = Len(regionsOfInterest)
    /\ \A k \in 1..Len(hands) :
         /\ hands[k].slot \in 1..Len(predictorRuns)
         /\ hands[k].handInViewConfidence = predictorRuns[hands[k].slot].confidence
         /\ hands[k].handInViewConfidence >= config.minConfidence
    /\ \A k, l \in 1..Len(hands) : k < l => hands[k].slot < hands[l].slot
    /\ \A i \in 1..Len(predictorRuns) :
         predictorRuns[i].confidence >= config.minConfidence
           => \E k \in 1..Len(hands) : hands[k].slot = i

C9_Witness ==
  /\ returned = "hands"
  /\ Len(predictorRuns) = 2
  /\ predictorRuns[1].confidence < config.minConfidence
  /\ predictorRuns[2].confidence = config.minConfidence
  /\ hands = <<[slot |-> 2, handInViewConfidence |-> config.minConfidence]>>

\* ---------------------------------------------------------------- C10
ReplacementCondition ==
  /\ config.maxHands > 1
  /\ Len(boundingBoxPredictions) > 0
  /\ Len(boundingBoxPredictions) # entry.detectedHands

\* C10: in a call entered with a stable tracked count in which the periodic
\* check invokes the detector, the region list is replaced by the detector's
\* boxes if and only if config.maxHands > 1 and the detector returned a
\* non-empty list whose length differs from detectedHands; otherwise the
\* previously tracked boxes are the ones processed.
C10_PeriodicReplacement ==
  (Called /\ EntryStable /\ detectorCalls = 1) =>
    /\ returned = "hands"
    /\ useFreshBox <=> ReplacementCondition
    /\ PredictedBoxes =
         IF ReplacementCondition THEN boundingBoxPredictions
         ELSE entry.regionsOfInterest

C10_Witness ==
  /\ Called
  /\ EntryStable
  /\ detectorCalls = 1
  /\ Len(entry.regionsOfInterest) = 1
  /\ Len(boundingBoxPredictions) = 2
  /\ config.maxHands = 2
  /\ PredictedBoxes = boundingBoxPredictions
  /\ PredictedBoxes # entry.regionsOfInterest

\* ---------------------------------------------------------------- C16
\* C16: after every call detectedHands is the number of hands the call
\* returned (0 for the no-hands result) and is at most
\* regionsOfInterest.length; whenever regionsOfInterest is empty,
\* detectedHands is 0.
C16_DetectedHandsIsReturnedCount ==
  /\ Called =>
       /\ detectedHands = Len(hands)
       /\ returned = "null" => detectedHands = 0
       /\ detectedHands <= Len(regionsOfInterest)
  /\ regionsOfInterest = <<>> => detectedHands = 0

C16_Witness ==
  /\ returned = "null"
  /\ entry.detectedHands = 1
  /\ Len(entry.regionsOfInterest) = 2
  /\ detectedHands = 0
  /\ regionsOfInterest = <<>>

C18_MissingHandForcesRedetection ==
  (Called /\ entry.detectedHands < Len(entry.regionsOfInterest)) =>
    /\ detectorCalls = 1
    /\ useFreshBox
    /\ PredictedBoxes = boundingBoxPredictions
    /\ Len(regionsOfInterest) = Len(boundingBoxPredictions)

C18_Witness ==
  /\ Called
  /\ entry.detectedHands = 1
  /\ Len(entry.regionsOfInterest) = 2
  /\ \E i \in 1..2 : entry.regionsOfInterest[i] \in HandBoxes
  /\ detectorCalls = 1
  /\ Len(boundingBoxPredictions) = 2
  /\ PredictedBoxes = boundingBoxPredictions
  /\ \A i \in 1..2 : PredictedBoxes[i] \in DetectorBoxes

\* ---------------------------------------------------------------- C15
\* C15: for a non-empty landmark list calculateLandmarksBoundingBox returns
\* a box with startPoint <= endPoint componentwise whose bounds are the
\* least and the greatest x and y of the landmarks, so that every landmark
\* lies inside it.
C15_BoxBoundsLandmarks ==
  landmarksBox # <<>> =>
    LET b == landmarksBox[1]
        idx == 1..Len(landmarks)
    IN /\ b.startPoint[1] <= b.endPoint[1]
       /\ b.startPoint[2] <= b.endPoint[2]
       /\ \A i \in idx, c \in 1..2 :
            b.startPoint[c] <= landmarks[i][c] /\ landmarks[i][c] <= b.endPoint[c]
       /\ \A c \in 1..2 :
            /\ \E i \in idx : landmarks[i][c] = b.startPoint[c]
            /\ \E i \in idx : landmarks[i][c] = b.endPoint[c]

C15_Witness ==
  /\ landmarks = <<<<1, 1>>, <<1, 0>>, <<0, 1>>>>
  /\ landmarksBox = <<Box(0, 0, 1, 1)>>

\* ---------------------------------------------------------------- C14
\* C14: transformRawCoords returns one coordinate per raw coordinate, in
\* the same order (output i is the transform of raw coordinate i alone),
\* and the depth of output i is the depth of raw coordinate i, for every
\* box, angle and rotation matrix.
C14_DepthAndOrderKept ==
  transformed # <<>> =>
    LET out == transformed[1]
        raw == transformArgs.rawCoords
    IN /\ Len(out) = Len(raw)
       /\ \A i \in 1..Len(raw) :
            /\ Len(out[i]) = 3
            /\ out[i][3] = raw[i][3]
            /\ out[i] = transformRawCoords(<<raw[i]>>, transformArgs.box2,
                                           transformArgs.angle,
                                           transformArgs.rotationMatrix)[1]

C14_Witness ==
  /\ transformArgs.rawCoords = <<<<InputSize, 1, 1>>, <<0, 0, 0>>>>
  /\ transformArgs.box2 = Box(1, 0, 4, 6)
  /\ transformArgs.angle = 1
  /\ transformArgs.rotationMatrix = buildRotationMatrix(3, <<1, 2>>)
  /\ transformed # <<>>
  /\ transformed[1][1][3] = 1
  /\ transformed[1][2][3] = 0
  /\ transformed[1][1][1] # transformed[1][2][1]

\* ---------------------------------------------------------------- C20
\* C20: getCanvasContext never throws; it returns null when the input is
\* missing, when the input has no getContext, or when getContext('2d')
\* yields nothing, and the 2d context otherwise; getContext is called at
\* most once and only on an input that has it.
C20_CanvasContextTotal ==
  canvasCall.input # "none" =>
    /\ ~canvasCall.threw
    /\ canvasCall.result = (IF canvasCall.input = "canvas" THEN "ctx" ELSE "null")
    /\ canvasCall.getContextCalls <= 1
    /\ canvasCall.getContextCalls = 1 => HasGetContext(canvasCall.input)

C20_Witness ==
  /\ canvasCall.input = "noGetContext"
  /\ canvasCall.result = "null"
  /\ canvasCall.getContextCalls = 0
  /\ logged = <<"cannot get canvas context", "canvas context not defined">>

\* ---------------------------------------------------------------- C19
\* the condition of the claim, on the state the call was entered with
CacheCondition ==
  /\ poseCall.skipped < poseCall.config.body.skipFrames
  /\ poseCall.config.skipFrame
  /\ Len(poseCall.keypoints) > 0

\* C19 as stated: the first call of predict invokes the model; a call
\* returns without invoking the model only when skipped <
\* config.body.skipFrames, config.skipFrame is set and the cached keypoint
\* list is non-empty; at most config.body.skipFrames consecutive calls go
\* without a model run; an empty keypoint list is never returned without a
\* model run.
C19_CacheOnlyWhenFresh ==
  poseCall.called =>
    /\ poseCall.first => poseCall.modelRuns = 1
    /\ poseCall.modelRuns = 0 =>
         /\ CacheCondition
         /\ cachedRun <= poseCall.config.body.skipFrames
    /\ poseCall.returned = <<>> => poseCall.modelRuns = 1

\* C19, amended: the same for the calls made with config.body.enabled set;
\* the bound on consecutive calls without a model run holds while every
\* call so far had config.body.enabled set.
C19_CacheOnlyWhenFreshIfEnabled ==
  (poseCall.called /\ poseCall.config.body.enabled) =>
    /\ poseCall.first => poseCall.modelRuns = 1
    /\ poseCall.modelRuns = 0 =>
         /\ CacheCondition
         /\ allEnabled => cachedRun <= poseCall.config.body.skipFrames
    /\ poseCall.returned = <<>> => poseCall.modelRuns = 1

C19_Witness ==
  /\ poseCall.called /\ poseCall.config.body.enabled /\ allEnabled
  /\ poseCall.modelRuns = 0
  /\ poseCall.config.body.skipFrames = 2
  /\ cachedRun = 2
  /\ skipped = 2
  /\ poseCall.returned # <<>>

\* ---------------------------------------------------------------- C11
\* no collaborator failed in the last call
Conformed == returned = "threw" => thrown.by \notin {"detector", "predictor"}

\* C11 as stated: a call in which the detector returns Boxes of the data
\* model (palmLandmarks optional) and the predictor returns its pair never
\* throws; it ends with a list of hands or with the no-hands result.
C11_NoThrowIfConforming ==
  (returned # "none" /\ Conformed) => returned \in {"null", "hands"}

\* ---------------------------------------------------------------- C12
\* C12: a failure of the detector or of the predictor ends the call with
\* that failure, and the failed collaborator is not invoked again in the
\* call: after a detector failure the detector has been invoked once and the
\* predictor not at all, and the tracker state is as at entry; after a
\* predictor failure at slot k the predictor has been invoked k times, the
\* k-th invocation being the failed one, and detectedHands is as at entry.
C12_FailurePropagatesNoRetry ==
  returned = "threw" =>
    /\ detectorCalls <= 1
    /\ hands = <<>>
    /\ detectedHands = entry.detectedHands
    /\ thrown.by = "detector" =>
         /\ detectorCalls = 1
         /\ thrown.predictorCalls = 0
         /\ predictorRuns = <<>>
         /\ regionsOfInterest = entry.regionsOfInterest
         /\ runsWithoutHandDetector = entry.runsWithoutHandDetector
    /\ thrown.by = "predictor" =>
         /\ thrown.predictorCalls = thrown.slot
         /\ Len(predictorRuns) = thrown.slot - 1

C12_Witness ==
  /\ returned = "threw"
  /\ thrown = [by |-> "predictor", slot |-> 2, predictorCalls |-> 2]
  /\ Len(predictorRuns) = 1
  /\ Len(regionsOfInterest) = 2
  /\ detectorCalls = 1

\* ---------------------------------------------------------------- C13
\* C13 as stated: the tracker state is used by one estimateHands call at a
\* time: no call reads or writes it while another call is suspended between
\* its entry decision (line 91) and its return.
C13_OneCallAtATime == touching.suspended = {}

====
